---- MODULE Spec2Model ----
(***************************************************************************)
(* Model of the copy run of src/app.py (the "Copy N Models to M Targets"   *)
(* button handler, lines 801-983) and of the helper functions it calls:    *)
(* get_api_version_from_model, authorize_copy_model, copy_model_to_target  *)
(* and check_copy_status (lines 109-275).                                  *)
(*                                                                         *)
(* Text is modelled as a sequence of tokens.  Model ids, suffixes, status  *)
(* values and API versions are sequences of one-character tokens, so that  *)
(* concatenation, lower-casing and the lexicographic comparison of Python  *)
(* strings are computed character by character; the literal parts of an    *)
(* f-string are single tokens.                                             *)
(***************************************************************************)
EXTENDS Integers, Sequences, FiniteSets, TLC

\* ------------------------------------------------------------------------
\* Bounds of the model
\* ------------------------------------------------------------------------

\* At most this many calls of one run fail: a target key or client that
\* cannot be had, a remote call answered by an error, a malformed body, a
\* missing header or a terminal Failed status, a copy still pending at the
\* last allowed status check.
MaxFaults == 1

\* ------------------------------------------------------------------------
\* Python strings
\* ------------------------------------------------------------------------

\* The characters that occur in compared or lower-cased strings, in code
\* point order.
Alphabet ==
    << "-", "0", "1", "2", "3", "4", "5", "7", "9",
       "F", "N", "R", "S",
       "a", "c", "d", "e", "f", "g", "i", "l", "n", "o", "p", "r", "s", "t",
       "u", "v", "w" >>

Ord(c) == CHOOSE i \in DOMAIN Alphabet : Alphabet[i] = c

\* a < b for Python str: the first differing character decides, a proper
\* prefix is smaller.
StrLess(a, b) ==
    \E i \in 1..Len(b) :
        /\ \A j \in 1..(i - 1) : j <= Len(a) /\ a[j] = b[j]
        /\ \/ i = Len(a) + 1
           \/ i <= Len(a) /\ Ord(a[i]) < Ord(b[i])

\* a >= b for Python str
StrGE(a, b) == ~StrLess(a, b)

LowerChar(c) ==
    CASE c = "F" -> "f"
      [] c = "N" -> "n"
      [] c = "R" -> "r"
      [] c = "S" -> "s"
      [] OTHER -> c

\* str.lower()
Lower(s) == [i \in DOMAIN s |-> LowerChar(s[i])]

\* ------------------------------------------------------------------------
\* JSON values as Python sees them after response.json()
\* ------------------------------------------------------------------------
JObj(fields) == [t |-> "dict", v |-> fields]
JStr(s) == [t |-> "str", v |-> s]
JArr == [t |-> "list", v |-> <<>>]

IsDict(j) == j.t = "dict"
IsStr(j) == j.t = "str"
\* key in d
HasKey(d, k) == k \in DOMAIN d.v
\* d.get(k, default)
Get(d, k, default) == IF HasKey(d, k) THEN d.v[k] ELSE default

\* str(x) / f"{x}" of a JSON value: a string is itself, a dict is its repr
PyStr(j) ==
    IF IsStr(j) THEN j.v
    ELSE IF IsDict(j) /\ HasKey(j, "message")
         THEN <<"{'message': '">> \o j.v["message"].v \o <<"'}">>
         ELSE <<"{}">>

\* ------------------------------------------------------------------------
\* String literals of the program
\* ------------------------------------------------------------------------
V_2024_11_30 == <<"2", "0", "2", "4", "-", "1", "1", "-", "3", "0">>
V_2023_07_31 == <<"2", "0", "2", "3", "-", "0", "7", "-", "3", "1">>
S_succeeded == <<"s", "u", "c", "c", "e", "e", "d", "e", "d">>
S_failed == <<"f", "a", "i", "l", "e", "d">>
S_running == <<"r", "u", "n", "n", "i", "n", "g">>
S_notstarted == <<"n", "o", "t", "s", "t", "a", "r", "t", "e", "d">>
S_unknown == <<"u", "n", "k", "n", "o", "w", "n">>

max_attempts == 30

\* ------------------------------------------------------------------------
\* Configuration (environment variables) and secrets
\* ------------------------------------------------------------------------
source_endpoint == <<"https://src">>
source_kv_url == <<"https://kv-src">>
source_secret_name == <<"src-secret">>

TargetSlot(key, name) ==
    [key |-> key, name |-> name,
     endpoint |-> <<"https://", key>>,
     kv_url |-> <<"https://kv-", key>>,
     secret_name |-> <<key, "-secret">>]

\* The target environments of the .env file that are fully configured, in
\* slot order: two of the three slots, under their default names.
ConfiguredTargetsChoices ==
    { << TargetSlot("target1", "Target 1"), TargetSlot("target2", "Target 2") >> }

\* The same two slots with TARGET1_NAME and TARGET2_NAME set: to two
\* different names, and to the same name
NamedTargetsChoices ==
    { << TargetSlot("target1", "Dev"), TargetSlot("target2", "Prod") >>,
      << TargetSlot("target1", "Prod"), TargetSlot("target2", "Prod") >> }

\* The value stored in a key vault under a secret name
SecretValue(kv_url, secret_name) == <<"key of ">> \o kv_url \o secret_name

\* ------------------------------------------------------------------------
\* Models of the source resource
\* ------------------------------------------------------------------------
Absent == [tag |-> "absent", v |-> <<>>]     \* the object has no such attribute
None == [tag |-> "none", v |-> <<>>]         \* the attribute is None
Val(x) == [tag |-> "value", v |-> x]

\* hasattr(m, a) and m.a
Truthy(opt) == opt.tag = "value" /\ opt.v # <<>>

ID_inv == <<"i", "n", "v">>
ID_tax == <<"t", "a", "x">>

Model(id, created, version) ==
    [model_id |-> id, created_date_time |-> created, api_version |-> version]

V_2024_07_31_preview ==
    <<"2", "0", "2", "4", "-", "0", "7", "-", "3", "1", "-",
      "p", "r", "e", "v", "i", "e", "w">>
V_2024_11_30_preview == V_2024_11_30 \o <<"-", "p", "r", "e", "v", "i", "e", "w">>
V_2025_01_01 == <<"2", "0", "2", "5", "-", "0", "1", "-", "0", "1">>
V_2024_11_3 == <<"2", "0", "2", "4", "-", "1", "1", "-", "3">>
V_9 == <<"9">>

\* A listing of the source resource (models_list after a refresh): custom
\* models only, in the order the service lists them.
Catalog == 
    << Model(ID_inv, Val(<<1>>), Val(V_2023_07_31)),
       Model(ID_tax, Val(<<2>>), Val(V_2024_11_30)) >>

\* Listings whose models cover the shapes of api_version: no attribute,
\* None, empty, before, at and after the cutover, shorter and longer strings.
VersionCatalogs ==
    { << Model(ID_inv, Val(<<2>>), Absent),
         Model(ID_tax, None, Val(<<>>)) >>,
      << Model(ID_inv, Absent, Val(V_2024_07_31_preview)),
         Model(ID_tax, Val(<<1>>), Val(V_2025_01_01)) >>,
      << Model(ID_inv, Val(<<1>>), Val(V_2024_11_3)),
         Model(ID_tax, Val(<<1>>), None) >>,
      << Model(ID_inv, Val(<<2>>), Val(V_9)),
         Model(ID_tax, Val(<<1>>), Val(V_2024_11_30_preview)) >> }

Suffixes == { <<>>, <<"-", "v", "2">> }

\* ------------------------------------------------------------------------
\* Helper functions
\* ------------------------------------------------------------------------

\* Variant: the cutover version itself is routed to the older API
get_api_version_from_model_after_cutover_only(model) ==
    IF Truthy(model.api_version) /\ StrLess(V_2024_11_30, model.api_version.v)
    THEN V_2024_11_30
    ELSE V_2023_07_31

\* get_api_version_from_model
get_api_version_from_model(model) ==
    IF Truthy(model.api_version) /\ StrGE(model.api_version.v, V_2024_11_30)
    THEN V_2024_11_30
    ELSE V_2023_07_31

\* The path prefix chosen at the head of authorize_copy_model and of
\* copy_model_to_target
path_prefix(api_version) ==
    IF StrGE(api_version, V_2024_11_30)
    THEN "documentintelligence"
    ELSE "formrecognizer"

\* str(e) of a requests exception
StrOfException(resp) ==
    IF resp.kind = "http"
    THEN resp.status_code \o <<" Client Error">>
    ELSE <<"Connection timed out">>

\* The except branch shared by the three request helpers: the value returned
\* for a requests.exceptions.RequestException.
RequestExceptionResult(resp) ==
    IF resp.kind = "http"
    THEN LET detail == resp.json
             err == Get(detail, "error", JObj([none |-> 0]))
             \* error_detail.get('error', {}).get('message', str(e)) raises
             \* unless both are dicts; the bare except then formats str(e)
             parsed == IsDict(detail) /\ IsDict(err)
             msg == IF parsed /\ HasKey(err, "message")
                    THEN PyStr(err.v["message"])
                    ELSE StrOfException(resp)
         IN  JObj([error |-> JStr(<<"HTTP ">> \o resp.status_code \o <<": ">> \o msg)])
    ELSE JObj([error |-> JStr(StrOfException(resp))])

\* What a helper hands back: a returned value, or an exception that is not
\* a RequestException and leaves the helper.
Returned(value) == [raised |-> FALSE, value |-> value]
Raised == [raised |-> TRUE, value |-> JArr]

\* The POST of authorize_copy_model
AuthorizeRequest(target_endpoint, target_key, model_id, description, api_version) ==
    [op |-> "authorizeCopy",
     endpoint |-> target_endpoint,
     path_prefix |-> path_prefix(api_version),
     api_version |-> api_version,
     key |-> target_key,
     body |-> JObj([modelId |-> JStr(model_id), description |-> JStr(description)])]

\* Variant: a conflict reported by the target is taken for an authorization
authorize_copy_model_conflict_swallowed(resp) ==
    IF resp.kind = "ok"
    THEN IF IsDict(resp.json) THEN Returned(resp.json) ELSE Raised
    ELSE IF resp.kind = "http" /\ resp.status_code = <<"409">>
    THEN Returned(JObj([targetModelId |-> JStr(<<"existing">>)]))
    ELSE Returned(RequestExceptionResult(resp))

\* Variant: a failed POST is handed back without the 'error' member
authorize_copy_model_error_unmarked(resp) ==
    IF resp.kind = "ok"
    THEN IF IsDict(resp.json) THEN Returned(resp.json) ELSE Raised
    ELSE Returned(JObj([message |-> RequestExceptionResult(resp).v["error"]]))

\* authorize_copy_model, given the response to its POST
authorize_copy_model(resp) ==
    IF resp.kind = "ok"
    THEN \* auth_result.get(...) raises AttributeError unless the body is a dict
         IF IsDict(resp.json) THEN Returned(resp.json) ELSE Raised
    ELSE Returned(RequestExceptionResult(resp))

\* The POST of copy_model_to_target
CopyRequest(endpoint, key, source_model_id, copy_authorization, api_version) ==
    [op |-> "copyTo",
     endpoint |-> endpoint,
     path_prefix |-> path_prefix(api_version),
     api_version |-> api_version,
     model |-> source_model_id,
     key |-> key,
     body |-> copy_authorization]

\* Variant: the Operation-Location header is not checked
copy_model_to_target_header_unchecked(resp) ==
    IF resp.kind = "ok"
    THEN Returned(JObj([operation_location |-> JStr(resp.operation_location.v),
                        status |-> JStr(<<"initiated">>)]))
    ELSE Returned(RequestExceptionResult(resp))

\* copy_model_to_target, given the response to its POST
copy_model_to_target(resp) ==
    IF resp.kind = "ok"
    THEN IF Truthy(resp.operation_location)
         THEN Returned(JObj([operation_location |-> JStr(resp.operation_location.v),
                             status |-> JStr(<<"initiated">>)]))
         ELSE Returned(JObj([error |-> JStr(<<"No Operation-Location header in response">>)]))
    ELSE Returned(RequestExceptionResult(resp))

\* The GET of check_copy_status
StatusRequest(operation_location, api_key) ==
    [op |-> "status", url |-> operation_location, key |-> api_key]

\* check_copy_status, given the response to its GET
check_copy_status(resp) ==
    IF resp.kind = "ok"
    THEN LET status_result == resp.json
         IN  \* status_result.get raises unless the body is a dict, and
             \* status.lower() raises unless the status is a string
             IF IsDict(status_result)
                /\ IsStr(Get(status_result, "status", JStr(S_unknown)))
             THEN Returned(status_result)
             ELSE Raised
    ELSE Returned(RequestExceptionResult(resp))

\* ------------------------------------------------------------------------
\* The remote service: the responses a request may get
\* ------------------------------------------------------------------------
HttpError(code, json) == [kind |-> "http", status_code |-> <<code>>, json |-> json]
TransportError == [kind |-> "transport"]
ErrorBody(msg) == JObj([error |-> JObj([message |-> JStr(<<msg>>)])])
NotJson == [t |-> "notjson", v |-> <<>>]

AuthorizeResponses(req) ==
    { [kind |-> "ok",
       json |-> JObj([targetResourceId |-> JStr(req.endpoint),
                      targetModelId |-> req.body.v.modelId,
                      accessToken |-> JStr(<<"token for ">> \o req.endpoint)])],
      [kind |-> "ok", json |-> JArr],
      HttpError("409", ErrorBody("model already exists")),
      TransportError }

OperationLocation(req) ==
    req.endpoint \o <<"/operations/">> \o req.model \o <<" to ">>
        \o req.body.v.targetModelId.v \o <<" in ">> \o req.body.v.targetResourceId.v

CopyResponses(req) ==
    { [kind |-> "ok", operation_location |-> Val(OperationLocation(req))],
      [kind |-> "ok", operation_location |-> Absent],
      HttpError("404", NotJson) }

StatusBody(status) == JObj([status |-> JStr(status)])
S_Succeeded == <<"S">> \o Tail(S_succeeded)
S_Failed == <<"F">> \o Tail(S_failed)
S_Running == <<"R">> \o Tail(S_running)
S_notStarted == <<"n", "o", "t", "S", "t", "a", "r", "t", "e", "d">>
S_canceled == <<"c", "a", "n", "c", "e", "l", "e", "d">>

\* The bodies of a 2xx answer to a status check: a status, a result when the
\* copy succeeded, and possibly an error when it failed.
QuotaExceeded == <<"quota exceeded">>
\* The model id the service names in the result of a finished copy
ResultModelId == <<"id in result">>

StatusBodies(req) ==
    { JObj([status |-> JStr(st), result |-> JObj([modelId |-> JStr(ResultModelId)])]) :
          st \in {S_succeeded, S_Succeeded} }
    \cup { JObj([status |-> JStr(st), error |-> e]) :
              st \in {S_failed, S_Failed},
              e \in { JObj([message |-> JStr(QuotaExceeded)]), JStr(QuotaExceeded) } }
    \cup { StatusBody(st) :
              st \in {S_failed, S_running, S_Running, S_notStarted, S_canceled} }
    \cup { JObj([percentCompleted |-> JStr(<<"0">>)]) }

StatusResponses(req) ==
    { [kind |-> "ok", json |-> b] : b \in StatusBodies(req) }
    \cup { [kind |-> "ok", json |-> JArr],
           HttpError("500", ErrorBody("internal error")),
           TransportError }

\* The 2xx answers to a status check, by the status they report
StatusIn(resp, statuses) ==
    /\ resp.kind = "ok"
    /\ IsDict(resp.json)
    /\ HasKey(resp.json, "status")
    /\ IsStr(resp.json.v["status"])
    /\ resp.json.v["status"].v \in statuses

ReportsSucceeded(resp) == StatusIn(resp, {S_succeeded, S_Succeeded})
ReportsFailed(resp) == StatusIn(resp, {S_failed, S_Failed})
ReportsPending(resp) == StatusIn(resp, {S_running, S_Running, S_notStarted})
\* neither Succeeded nor Failed: pending, another status, or no status
ReportsNonTerminal(resp) ==
    \/ StatusIn(resp, {S_running, S_Running, S_notStarted, S_canceled})
    \/ resp.kind = "ok" /\ IsDict(resp.json) /\ ~HasKey(resp.json, "status")

\* What the remote answered to a call, as the history keeps it
Answer(call, resp) ==
    [to |-> call,
     is |-> IF resp.kind # "ok" THEN resp.kind
            ELSE IF call = "copyTo"
            THEN IF resp.operation_location.tag = "value" THEN "ok" ELSE "no_header"
            ELSE IF ~IsDict(resp.json) THEN "malformed"
            ELSE IF call = "authorizeCopy" THEN "ok"
            ELSE IF ReportsSucceeded(resp) THEN "succeeded"
            ELSE IF ReportsFailed(resp)
            THEN IF ~HasKey(resp.json, "error") THEN "failed_bare"
                 ELSE IF IsDict(resp.json.v["error"]) THEN "failed_object"
                 ELSE "failed_string"
            ELSE IF ReportsPending(resp) THEN "pending"
            ELSE IF ReportsNonTerminal(resp) THEN "other"
            ELSE "malformed"]

\* The answers that count against MaxFaults: errors, malformed bodies, a
\* missing header and a terminal Failed status.
IsFault(call, resp) ==
    Answer(call, resp).is \notin {"ok", "succeeded", "pending", "other"}

\* ------------------------------------------------------------------------
\* State
\* ------------------------------------------------------------------------
VARIABLES
    configured_targets,   \* the configured target environments (.env file)
    models_list,          \* st.session_state.models_list
    target_models_lists,  \* session state: the models stored per target key
    selected_model_ids,   \* the ids of the rows ticked in the table
    selected_targets,     \* the target environments ticked
    copy_suffix,          \* the suffix text input
    pc,                   \* position in the copy button handler
    ti,                   \* index of target_config in selected_targets
    mi,                   \* index of model_id in selected_model_ids
    source_key,
    target_key,
    all_results,
    operation_count,
    copy_auth,
    copy_result,
    attempt,
    copy_completed,
    report,               \* what the handler has displayed at its end
    io,                   \* history: the remote calls of the current pairing
    fetches,              \* history: the key vault reads of the run
    started,              \* history: the pairings begun, in order
    faults,               \* history: the faulty answers given so far
    refreshed,            \* history: the target keys whose models a refresh stored
    last_listing,         \* history: the listing a service returned last
    last_refresh          \* history: what the refresh of the last step fetched

vars ==
    << configured_targets, models_list, selected_model_ids, selected_targets,
       copy_suffix, pc, ti, mi, source_key, target_key, all_results,
       operation_count, copy_auth, copy_result, attempt, copy_completed,
       report, io, fetches, started, faults, target_models_lists, refreshed,
       last_listing, last_refresh >>

\* What the copy button handler reads and never writes
inputs ==
    << configured_targets, models_list, selected_model_ids, selected_targets,
       copy_suffix, target_models_lists, refreshed, last_listing, last_refresh >>

\* ------------------------------------------------------------------------
\* The table of models and the selection
\* ------------------------------------------------------------------------

\* The sort key of line 597: the creation date, or datetime.min without one
CreatedKey(m) ==
    IF Truthy(m.created_date_time) THEN m.created_date_time.v[1] ELSE 0

\* Variant: sorted without reverse=True
sorted_models_oldest_first(available_models) ==
    LET n == Len(available_models)
        Earlier(j, i) ==
            \/ CreatedKey(available_models[j]) < CreatedKey(available_models[i])
            \/ /\ CreatedKey(available_models[j]) = CreatedKey(available_models[i])
               /\ j < i
        Rank(i) == 1 + Cardinality({j \in 1..n : Earlier(j, i)})
    IN  [k \in 1..n |-> available_models[CHOOSE i \in 1..n : Rank(i) = k]]

\* sorted(available_models, key=..., reverse=True): newest first, models
\* with equal keys in their listed order (the sort is stable)
sorted_models(available_models) ==
    LET n == Len(available_models)
        Before(j, i) ==
            \/ CreatedKey(available_models[j]) > CreatedKey(available_models[i])
            \/ /\ CreatedKey(available_models[j]) = CreatedKey(available_models[i])
               /\ j < i
        Rank(i) == 1 + Cardinality({j \in 1..n : Before(j, i)})
    IN  [k \in 1..n |-> available_models[CHOOSE i \in 1..n : Rank(i) = k]]

\* The elements of a sequence whose positions are in S, in order
Pick(seq, S) ==
    LET Nth(k) == CHOOSE i \in S : Cardinality({j \in S : j <= i}) = k
    IN  [k \in 1..Cardinality(S) |-> seq[Nth(k)]]

\* model_id_to_model.get(model_id)
model_id_to_model(model_id) ==
    LET rows == sorted_models(models_list)
        hits == {i \in 1..Len(rows) : rows[i].model_id = model_id}
    IN  IF hits = {}
        THEN None
        ELSE Val(rows[CHOOSE i \in hits : \A j \in hits : j <= i])

\* ------------------------------------------------------------------------
\* Initial state: a session with models loaded, a selection made and the
\* copy button not pressed yet
\* ------------------------------------------------------------------------
NoKey == None
Unbound == [t |-> "unbound", v |-> <<>>]
\* The history of a pairing: which pairing it is, the requests sent for it,
\* the number of status checks, of those answered with a status that is not
\* terminal, and of sleeps, the result entries appended
NoIo ==
    [ti |-> 0, mi |-> 0, authorize |-> <<>>, copyTo |-> <<>>, status |-> <<>>,
     answer |-> [to |-> "none", is |-> "none"],
     polls |-> 0, nonterminal |-> 0, sleeps |-> 0, appended |-> 0]

\* The history of a refresh when the last step was not one
NoRefresh == [kind |-> "none", failed |-> {}, got |-> <<>>, kept |-> <<>>]

\* Lines 361-365: target_models_lists as the session starts
NothingStored(targets) ==
    [key \in {targets[i].key : i \in DOMAIN targets} |-> <<>>]

\* The ids of the table rows whose positions are in S, in row order
SelectedRows(listing, S) ==
    Pick([i \in 1..Len(listing) |-> sorted_models(listing)[i].model_id], S)

\* The sessions explored: one listing with every selection of models and of
\* targets without a suffix, and with every selection of models for the
\* first target with a suffix; the listings of VersionCatalogs with one
\* model copied to the first target; and one model copied to a first target
\* whose stored models already hold it.
Sessions ==
    { [configured_targets |-> c, models_list |-> Catalog,
       target_models_lists |-> NothingStored(c), refreshed |-> {},
       selected_model_ids |-> SelectedRows(Catalog, M),
       selected_targets |-> Pick(c, T), copy_suffix |-> <<>>] :
          c \in ConfiguredTargetsChoices, M \in SUBSET (1..Len(Catalog)),
          T \in SUBSET (1..2) }
    \cup
    { [configured_targets |-> c, models_list |-> Catalog,
       target_models_lists |-> NothingStored(c), refreshed |-> {},
       selected_model_ids |-> SelectedRows(Catalog, M),
       selected_targets |-> Pick(c, {1}), copy_suffix |-> x] :
          c \in ConfiguredTargetsChoices, M \in SUBSET (1..Len(Catalog)),
          x \in Suffixes \ {<<>>} }
    \cup
    { [configured_targets |-> c, models_list |-> l,
       target_models_lists |-> NothingStored(c), refreshed |-> {},
       selected_model_ids |-> SelectedRows(l, {i}),
       selected_targets |-> Pick(c, {1}), copy_suffix |-> <<>>] :
          c \in ConfiguredTargetsChoices, l \in VersionCatalogs, i \in 1..2 }
    \cup
    { [configured_targets |-> c, models_list |-> Catalog,
       target_models_lists |-> [NothingStored(c) EXCEPT ![c[1].key] = Catalog],
       refreshed |-> {c[1].key},
       selected_model_ids |-> SelectedRows(Catalog, {i}),
       selected_targets |-> Pick(c, {1}), copy_suffix |-> x] :
          c \in ConfiguredTargetsChoices, i \in 1..2, x \in Suffixes }

Init ==
    /\ \E session \in Sessions :
          /\ configured_targets = session.configured_targets
          /\ models_list = session.models_list
          /\ target_models_lists = session.target_models_lists
          /\ refreshed = session.refreshed
          /\ selected_model_ids = session.selected_model_ids
          /\ selected_targets = session.selected_targets
          /\ copy_suffix = session.copy_suffix
    /\ pc = "idle"
    /\ ti = 0
    /\ mi = 0
    /\ source_key = NoKey
    /\ target_key = NoKey
    /\ all_results = <<>>
    /\ operation_count = 0
    /\ copy_auth = Unbound
    /\ copy_result = Unbound
    /\ attempt = 0
    /\ copy_completed = FALSE
    /\ report = [kind |-> "none"]
    /\ io = NoIo
    /\ fetches = <<>>
    /\ started = <<>>
    /\ faults = 0
    /\ last_listing = [of |-> "none", models |-> <<>>]
    /\ last_refresh = NoRefresh

\* ------------------------------------------------------------------------
\* The copy button handler
\* ------------------------------------------------------------------------
target_config == selected_targets[ti]
model_id == selected_model_ids[mi]

\* Variant: the suffix is not appended
new_model_id_without_suffix == model_id

\* line 864
new_model_id == IF copy_suffix # <<>> THEN model_id \o copy_suffix ELSE model_id

\* lines 867-868
model_api_version ==
    LET model == model_id_to_model(model_id)
    IN  IF model.tag = "value"
        THEN get_api_version_from_model(model.v)
        ELSE V_2023_07_31

\* line 826
total_operations == Len(selected_model_ids) * Len(selected_targets)

\* get_secret_client followed by get_api_key_from_kv: the secret, or None
\* when the vault or the secret cannot be read
get_api_key_from_kv(kv_url, secret_name, readable) ==
    IF readable THEN Val(SecretValue(kv_url, secret_name)) ELSE None

FailedEntry(id, error) == [model_id |-> id, error |-> error]
SuccessfulEntry(id, new_id) == [model_id |-> id, new_model_id |-> new_id]

\* Variant: the two lists are assigned, not appended to
Appended_replacing(name, successful, failed) ==
    [all_results EXCEPT ![name] = [successful |-> successful, failed |-> failed]]

\* Variant: new entries are put at the head of the two lists
Appended_prepending(name, successful, failed) ==
    [all_results EXCEPT ![name] =
        [successful |-> successful \o @.successful, failed |-> failed \o @.failed]]

\* all_results after appending to the two lists of one target name
Appended(name, successful, failed) ==
    [all_results EXCEPT ![name] =
        [successful |-> @.successful \o successful, failed |-> @.failed \o failed]]

\* The exception handler of line 981
UnexpectedError ==
    /\ report' = [kind |-> "unexpected_error"]
    /\ pc' = "done"
    /\ UNCHANGED << all_results, ti, mi >>

\* Variant: the target's setup is run again for every model
NextModel_setup_per_model == pc' = "target" /\ mi' = mi /\ ti' = ti

\* Variant: the model loop does not advance
NextModel_same_model == pc' = "authorize" /\ mi' = mi /\ ti' = ti

\* The end of one iteration of "for model_id in selected_model_ids"
NextModel ==
    IF mi < Len(selected_model_ids)
    THEN pc' = "authorize" /\ mi' = mi + 1 /\ ti' = ti
    ELSE pc' = "target" /\ mi' = mi /\ ti' = ti + 1

\* Variant: the source key is not checked
StartOutcome_key_unchecked(key, client_created) ==
    IF ~client_created THEN "no_client" ELSE "run"

\* Lines 818-824: what the handler does once the source key is fetched
StartOutcome(key, client_created) ==
    IF ~Truthy(key) THEN "no_key"
    ELSE IF ~client_created THEN "no_client"
    ELSE "run"

\* Variant: the selection of targets is not checked
SelectionGuard_models_only ==
    IF selected_model_ids = <<>> THEN "no_models" ELSE "run"

\* Lines 802 and 806-810: the button is disabled when no model or no target
\* is selected, and the handler checks the same again
SelectionGuard ==
    IF selected_model_ids = <<>> THEN "no_models"
    ELSE IF selected_targets = <<>> THEN "no_targets"
    ELSE "run"

\* Lines 801-833: the button is pressed. With an empty selection the press,
\* if it reaches the handler, is answered by a warning; otherwise the source
\* key is fetched and the source client is created
PressCopy ==
    /\ pc = "idle"
    /\ IF SelectionGuard = "no_models"
       THEN /\ report' = [kind |-> "warning",
                          text |-> "Please select at least one model to copy."]
            /\ UNCHANGED << pc, ti, source_key, all_results, fetches >>
       ELSE IF SelectionGuard = "no_targets"
       THEN /\ report' = [kind |-> "warning",
                          text |-> "Please select at least one target environment."]
            /\ UNCHANGED << pc, ti, source_key, all_results, fetches >>
       ELSE \E readable, client_created \in BOOLEAN :
         LET key == get_api_key_from_kv(source_kv_url, source_secret_name, readable)
         IN  /\ readable \/ client_created
             /\ source_key' = key
             /\ fetches' = Append(fetches, [kv_url |-> source_kv_url,
                                            secret_name |-> source_secret_name,
                                            readable |-> readable,
                                            client_created |-> client_created])
             /\ IF StartOutcome(key, client_created) = "no_key"
                THEN /\ report' = [kind |-> "error", text |-> "Failed to retrieve source API key."]
                     /\ pc' = "done"
                     /\ UNCHANGED << all_results, ti >>
                ELSE IF StartOutcome(key, client_created) = "no_client"
                THEN /\ report' = [kind |-> "error", text |-> "Failed to create source DI client."]
                     /\ pc' = "done"
                     /\ UNCHANGED << all_results, ti >>
                ELSE /\ all_results' =
                            [name \in {selected_targets[i].name : i \in DOMAIN selected_targets}
                                |-> [successful |-> <<>>, failed |-> <<>>]]
                     /\ pc' = "target"
                     /\ ti' = 1
                     /\ UNCHANGED report
    /\ UNCHANGED << inputs, mi, target_key, operation_count, copy_auth, copy_result,
                    attempt, copy_completed, io, started, faults >>

\* Variant: only the first selected model is recorded as failed
AllFailed_first_model_only(error) ==
    Appended(target_config.name, <<>>,
             << FailedEntry(selected_model_ids[1], error) >>)

\* Lines 844-848 and 854-858: every selected model is recorded as failed for
\* the current target
AllFailed(error) ==
    Appended(target_config.name, <<>>,
             [i \in DOMAIN selected_model_ids |->
                 FailedEntry(selected_model_ids[i], error)])

\* Lines 835-861: the head of one iteration of "for target_config in
\* selected_targets"
TargetSetup ==
    /\ pc = "target"
    /\ ti <= Len(selected_targets)
    /\ \E readable, client_created \in BOOLEAN :
         LET key == get_api_key_from_kv(target_config.kv_url, target_config.secret_name,
                                        readable)
         IN  /\ readable \/ client_created
             /\ ~(readable /\ client_created) => faults < MaxFaults
             /\ faults' = faults + (IF readable /\ client_created THEN 0 ELSE 1)
             /\ target_key' = key
             /\ fetches' = Append(fetches, [kv_url |-> target_config.kv_url,
                                            secret_name |-> target_config.secret_name,
                                            readable |-> readable,
                                            client_created |-> client_created])
             /\ IF ~Truthy(key)
                THEN /\ all_results' = AllFailed(<<"Failed to retrieve target API key">>)
                     /\ ti' = ti + 1
                     /\ UNCHANGED << pc, mi >>
                ELSE IF ~client_created
                THEN /\ all_results' = AllFailed(<<"Failed to create target DI client">>)
                     /\ ti' = ti + 1
                     /\ UNCHANGED << pc, mi >>
                ELSE /\ pc' = "authorize"
                     /\ mi' = 1
                     /\ UNCHANGED << all_results, ti >>
    /\ UNCHANGED << inputs, source_key, operation_count, copy_auth, copy_result,
                    attempt, copy_completed, report, io, started >>

\* Variant: the authorization is asked of the first selected target
CurrentAuthorizeRequest_first_target ==
    AuthorizeRequest(selected_targets[1].endpoint, target_key.v, new_model_id,
                     <<"Copied from ">> \o source_endpoint \o <<" ">> \o model_id,
                     model_api_version)

\* Lines 785-789 (and 657-665): the stored models of a target hold a model id
StoredIn(target, id) ==
    /\ target.key \in DOMAIN target_models_lists
    /\ \E i \in DOMAIN target_models_lists[target.key] :
          target_models_lists[target.key][i].model_id = id

\* The request of line 875
CurrentAuthorizeRequest ==
    AuthorizeRequest(target_config.endpoint, target_key.v, new_model_id,
                     <<"Copied from ">> \o source_endpoint \o <<" ">> \o model_id,
                     model_api_version)

\* Lines 862-883: a pairing starts; step 1, authorize the copy on the target
Authorize(resp) ==
    /\ pc = "authorize"
    /\ resp \in AuthorizeResponses(CurrentAuthorizeRequest)
    /\ IsFault("authorizeCopy", resp) => faults < MaxFaults
    /\ faults' = faults + (IF IsFault("authorizeCopy", resp) THEN 1 ELSE 0)
    /\ started' = Append(started, <<ti, mi>>)
    /\ operation_count' = operation_count + 1
    /\ LET r == authorize_copy_model(resp)
           failed == ~r.raised /\ HasKey(r.value, "error")
       IN  /\ io' = [NoIo EXCEPT !.ti = ti, !.mi = mi,
                                 !.authorize = <<CurrentAuthorizeRequest>>,
                                 !.answer = Answer("authorizeCopy", resp),
                                 !.appended = IF failed THEN 1 ELSE 0]
           /\ IF r.raised
              THEN UnexpectedError /\ UNCHANGED copy_auth
              ELSE /\ copy_auth' = r.value
                   /\ UNCHANGED report
                   /\ IF failed
                      THEN /\ all_results' =
                                 Appended(target_config.name, <<>>,
                                     << FailedEntry(model_id,
                                            <<"Authorization failed: ">>
                                                \o PyStr(r.value.v["error"])) >>)
                           /\ NextModel
                      ELSE /\ pc' = "initiate"
                           /\ UNCHANGED << all_results, ti, mi >>
    /\ UNCHANGED << inputs, source_key, target_key, copy_result, attempt,
                    copy_completed, fetches >>

\* Variant: the authorization is forwarded without its access token
CurrentCopyRequest_token_dropped ==
    CopyRequest(source_endpoint, source_key.v, model_id,
                JObj([targetResourceId |-> copy_auth.v["targetResourceId"],
                      targetModelId |-> copy_auth.v["targetModelId"]]),
                model_api_version)

\* Variant: the api version is not passed on, the default applies
CurrentCopyRequest_default_version ==
    CopyRequest(source_endpoint, source_key.v, model_id, copy_auth, V_2023_07_31)

\* The request of line 887
CurrentCopyRequest ==
    CopyRequest(source_endpoint, source_key.v, model_id, copy_auth, model_api_version)

\* Lines 885-903: step 2, initiate the copy on the source
Initiate(resp) ==
    /\ pc = "initiate"
    /\ resp \in CopyResponses(CurrentCopyRequest)
    /\ IsFault("copyTo", resp) => faults < MaxFaults
    /\ faults' = faults + (IF IsFault("copyTo", resp) THEN 1 ELSE 0)
    /\ LET r == copy_model_to_target(resp)
           failed == HasKey(r.value, "error")
       IN  /\ io' = [io EXCEPT !.copyTo = Append(@, CurrentCopyRequest),
                               !.answer = Answer("copyTo", resp),
                               !.appended = @ + (IF failed THEN 1 ELSE 0)]
           /\ copy_result' = r.value
           /\ IF failed
              THEN /\ all_results' =
                         Appended(target_config.name, <<>>,
                             << FailedEntry(model_id,
                                    <<"Copy initiation failed: ">>
                                        \o PyStr(r.value.v["error"])) >>)
                   /\ NextModel
                   /\ UNCHANGED << attempt, copy_completed >>
              ELSE /\ attempt' = 0
                   /\ copy_completed' = FALSE
                   /\ pc' = "poll"
                   /\ UNCHANGED << all_results, ti, mi >>
    /\ UNCHANGED << inputs, source_key, target_key, operation_count, copy_auth,
                    report, fetches, started >>

\* Variant: the status is asked with the key of the target
CurrentStatusRequest_target_key ==
    StatusRequest(copy_result.v["operation_location"].v, target_key.v)

\* The request of line 907
CurrentStatusRequest ==
    StatusRequest(copy_result.v["operation_location"].v, source_key.v)

\* Variant: a status that is not known counts as a failure
PollBody_unknown_status_fails(status_result) ==
    IF HasKey(status_result, "error")
    THEN [break |-> TRUE, completed |-> FALSE, successful |-> <<>>, sleeps |-> 0,
          failed |-> << FailedEntry(model_id,
                            <<"Status check failed: ">>
                                \o PyStr(status_result.v["error"])) >>]
    ELSE LET status == Lower(Get(status_result, "status", JStr(<<>>)).v)
         IN  IF status = S_succeeded
             THEN [break |-> TRUE, completed |-> TRUE, sleeps |-> 0, failed |-> <<>>,
                   successful |-> << SuccessfulEntry(model_id, new_model_id) >>]
             ELSE IF status \in {S_running, S_notstarted}
             THEN [break |-> FALSE, completed |-> FALSE, successful |-> <<>>,
                   sleeps |-> 1, failed |-> <<>>]
             ELSE [break |-> TRUE, completed |-> FALSE, successful |-> <<>>,
                   sleeps |-> 0,
                   failed |-> << FailedEntry(model_id, <<"Unknown error">>) >>]

\* Variant: the status is compared without .lower()
PollBody_case_sensitive(status_result) ==
    IF HasKey(status_result, "error")
    THEN [break |-> TRUE, completed |-> FALSE, successful |-> <<>>, sleeps |-> 0,
          failed |-> << FailedEntry(model_id,
                            <<"Status check failed: ">>
                                \o PyStr(status_result.v["error"])) >>]
    ELSE LET status == Get(status_result, "status", JStr(<<>>)).v
         IN  IF status = S_succeeded
             THEN [break |-> TRUE, completed |-> TRUE, sleeps |-> 0, failed |-> <<>>,
                   successful |-> << SuccessfulEntry(model_id, new_model_id) >>]
             ELSE IF status = S_failed
             THEN [break |-> TRUE, completed |-> FALSE, successful |-> <<>>,
                   sleeps |-> 0,
                   failed |-> << FailedEntry(model_id, <<"Unknown error">>) >>]
             ELSE [break |-> FALSE, completed |-> FALSE, successful |-> <<>>,
                   sleeps |-> 1, failed |-> <<>>]

\* Lines 905-945: what one iteration of the while loop does with the value
\* check_copy_status returned
PollBody(status_result) ==
    IF HasKey(status_result, "error")
    THEN [break |-> TRUE, completed |-> FALSE, successful |-> <<>>, sleeps |-> 0,
          failed |-> << FailedEntry(model_id,
                            <<"Status check failed: ">>
                                \o PyStr(status_result.v["error"])) >>]
    ELSE LET status == Lower(Get(status_result, "status", JStr(<<>>)).v)
         IN  IF status = S_succeeded
             THEN [break |-> TRUE, completed |-> TRUE, sleeps |-> 0, failed |-> <<>>,
                   successful |-> << SuccessfulEntry(model_id, new_model_id) >>]
             ELSE IF status = S_failed
             THEN LET error_info == Get(status_result, "error", JObj([none |-> 0]))
                      error_msg ==
                          IF IsDict(error_info)
                          THEN Get(error_info, "message", JStr(<<"Unknown error">>)).v
                          ELSE PyStr(error_info)
                  IN  [break |-> TRUE, completed |-> FALSE, successful |-> <<>>,
                       sleeps |-> 0,
                       failed |-> << FailedEntry(model_id, error_msg) >>]
             ELSE \* 'running', 'notstarted' and any other status: time.sleep(2)
                  [break |-> FALSE, completed |-> FALSE, successful |-> <<>>,
                   sleeps |-> 1, failed |-> <<>>]

\* Variant: the attempts are compared with > instead of >=
TimedOut_past_limit(completed, attempts) == ~completed /\ attempts > max_attempts

\* Line 947: the check made when the while loop has ended
TimedOut(completed, attempts) == ~completed /\ attempts >= max_attempts

\* Lines 905-952: step 3, one status check of the while loop; when the loop
\* ends with it, the timeout check of line 947 and the end of the pairing
Poll(resp) ==
    /\ pc = "poll"
    /\ attempt < max_attempts
    /\ resp \in StatusResponses(CurrentStatusRequest)
    /\ LET fault == IsFault("status", resp)
                        \/ (attempt + 1 >= max_attempts /\ ~ReportsSucceeded(resp))
       IN  /\ fault => faults < MaxFaults
           /\ faults' = faults + (IF fault THEN 1 ELSE 0)
    /\ attempt' = attempt + 1
    /\ LET r == check_copy_status(resp)
           body == PollBody(r.value)
           ended == body.break \/ ~(attempt' < max_attempts)
           timed_out == ended /\ TimedOut(body.completed, attempt')
           failed == body.failed \o
                     (IF timed_out
                      THEN << FailedEntry(model_id, <<"Copy operation timed out">>) >>
                      ELSE <<>>)
       IN  IF r.raised
           THEN /\ UnexpectedError
                /\ io' = [io EXCEPT !.status = <<CurrentStatusRequest>>,
                                    !.answer = Answer("status", resp),
                                    !.polls = @ + 1,
                                    !.nonterminal = @ + (IF ReportsNonTerminal(resp)
                                                         THEN 1 ELSE 0)]
                /\ UNCHANGED copy_completed
           ELSE /\ io' = [io EXCEPT !.status = <<CurrentStatusRequest>>,
                                    !.answer = Answer("status", resp),
                                    !.polls = @ + 1,
                                    !.nonterminal = @ + (IF ReportsNonTerminal(resp)
                                                         THEN 1 ELSE 0),
                                    !.sleeps = @ + body.sleeps,
                                    !.appended = @ + Len(body.successful) + Len(failed)]
                /\ copy_completed' = body.completed
                /\ all_results' = Appended(target_config.name, body.successful, failed)
                /\ UNCHANGED report
                /\ IF ended
                   THEN NextModel
                   ELSE UNCHANGED << pc, ti, mi >>
    /\ UNCHANGED << inputs, source_key, target_key, operation_count, copy_auth,
                    copy_result, fetches, started >>

\* sum(f[x] for x in S)
RECURSIVE SumOver(_, _)
SumOver(S, f) ==
    IF S = {} THEN 0
    ELSE LET x == CHOOSE y \in S : TRUE IN f[x] + SumOver(S \ {x}, f)

\* Lines 954-979: the summary displayed when both loops have ended
Summary ==
    /\ pc = "target"
    /\ ti > Len(selected_targets)
    /\ LET NSuccessful == [name \in DOMAIN all_results |-> Len(all_results[name].successful)]
           NFailed == [name \in DOMAIN all_results |-> Len(all_results[name].failed)]
       IN  report' = [kind |-> "summary",
                      total_successful |-> SumOver(DOMAIN all_results, NSuccessful),
                      total_failed |-> SumOver(DOMAIN all_results, NFailed),
                      total_operations |-> total_operations,
                      targets |-> all_results]
    /\ pc' = "done"
    /\ UNCHANGED << inputs, ti, mi, source_key, target_key, all_results,
                    operation_count, copy_auth, copy_result, attempt, copy_completed,
                    io, fetches, started, faults >>

Next ==
    \/ PressCopy
    \/ TargetSetup
    \/ pc = "authorize"
          /\ \E resp \in AuthorizeResponses(CurrentAuthorizeRequest) : Authorize(resp)
    \/ pc = "initiate"
          /\ \E resp \in CopyResponses(CurrentCopyRequest) : Initiate(resp)
    \/ pc = "poll"
          /\ \E resp \in StatusResponses(CurrentStatusRequest) : Poll(resp)
    \/ Summary

Spec == Init /\ [][Next]_vars

\* ------------------------------------------------------------------------
\* The refresh buttons and the table of models
\* ------------------------------------------------------------------------
Prebuilt == <<"p", "r", "e", "b", "u", "i", "l", "t", "-">>

\* str.startswith
StartsWith(str, prefix) ==
    Len(str) >= Len(prefix) /\ SubSeq(str, 1, Len(prefix)) = prefix

ID_prebuilt_read == Prebuilt \o <<"r", "e", "a", "d">>
ID_prebuilt == <<"p", "r", "e", "b", "u", "i", "l", "t">>
ID_Prebuilt_x == <<"P", "r", "e", "b", "u", "i", "l", "t", "-", "x">>

\* What list_models() of a resource may return: prebuilt and custom models
\* in the order of the service
ServiceListings ==
    { << Model(ID_prebuilt_read, Val(<<2>>), Val(V_2024_11_30)),
         Model(ID_inv, Val(<<1>>), Val(V_2023_07_31)),
         Model(ID_tax, Val(<<2>>), Val(V_2024_11_30)) >>,
      << Model(ID_inv, Absent, Val(V_2023_07_31)),
         Model(ID_prebuilt, None, Val(V_2023_07_31)),
         Model(ID_tax, Val(<<1>>), Val(V_2024_11_30)),
         Model(ID_prebuilt_read, Val(<<1>>), Val(V_2024_11_30)),
         Model(ID_Prebuilt_x, Val(<<2>>), Val(V_2024_11_30)) >>,
      << Model(ID_prebuilt_read, Val(<<1>>), Val(V_2024_11_30)) >> }

\* How the fetch of one resource's models ends: with a listing, or at one
\* of the error messages (key vault, key, client, connection, list_models)
FetchOutcomes ==
    { [ok |-> TRUE, models |-> l] : l \in ServiceListings }
    \cup { [ok |-> FALSE, models |-> <<>>] }

\* Variant: the listing is stored as it is
custom_models_unfiltered(models) == models

\* Lines 397, 430, 482, 541: the models of a listing that are not prebuilt
custom_models(models) ==
    SelectSeq(models, LAMBDA m : ~StartsWith(m.model_id, Prebuilt))

\* The variables of the copy button handler
handler ==
    << pc, ti, mi, source_key, target_key, all_results, operation_count, copy_auth,
       copy_result, attempt, copy_completed, report, io, fetches, started, faults >>

\* Lines 385-411 and 472-497: the source models are fetched and stored. The
\* table is rebuilt from models_list; its ticks are kept only when the
\* rows are the same.
FetchSource(outcome) ==
    /\ models_list' = IF outcome.ok THEN custom_models(outcome.models) ELSE models_list
    /\ selected_model_ids' = IF models_list' = models_list THEN selected_model_ids ELSE <<>>

\* Variant: a target whose fetch fails has its stored models cleared
FetchTargets_failure_clears(outcomes) ==
    LET stored == {key \in DOMAIN outcomes : outcomes[key].ok}
    IN  /\ target_models_lists' =
               [key \in DOMAIN target_models_lists |->
                   IF key \in stored
                   THEN custom_models(outcomes[key].models)
                   ELSE IF key \in DOMAIN outcomes THEN <<>>
                   ELSE target_models_lists[key]]
        /\ refreshed' = refreshed \cup stored

\* Lines 414-446 and 526-552: the models of targets are fetched and stored;
\* outcomes maps the keys of the targets fetched to the outcome of each
FetchTargets(outcomes) ==
    LET stored == {key \in DOMAIN outcomes : outcomes[key].ok}
    IN  /\ target_models_lists' =
               [key \in DOMAIN target_models_lists |->
                   IF key \in stored
                   THEN custom_models(outcomes[key].models)
                   ELSE target_models_lists[key]]
        /\ refreshed' = refreshed \cup stored

\* The listing the services returned last in a step: that of the last
\* configured target fetched with success, else that of the source
Listed(source, outcomes) ==
    LET hits == {i \in DOMAIN configured_targets :
                    /\ configured_targets[i].key \in DOMAIN outcomes
                    /\ outcomes[configured_targets[i].key].ok}
    IN  IF hits # {}
        THEN [of |-> "target",
              models |-> outcomes[configured_targets[
                            CHOOSE i \in hits : \A j \in hits : j <= i].key].models]
        ELSE IF source.ok THEN [of |-> "source", models |-> source.models]
        ELSE last_listing

NotFetched == [ok |-> FALSE, models |-> <<>>]

\* The resources whose models the session stores, and what it stores of each
Resources == {"source"} \cup {configured_targets[i].key : i \in DOMAIN configured_targets}
CatalogOf(r) == IF r = "source" THEN models_list ELSE target_models_lists[r]

\* The history of one refresh: fetched maps the resources it fetched to the
\* outcome of each. Recorded are the resources whose fetch failed, the
\* listing got from each of the others, and what was stored before the
\* refresh of every resource that it did not fetch with success.
Recorded(kind, fetched) ==
    LET got == {r \in DOMAIN fetched : fetched[r].ok}
    IN  [kind |-> kind,
         failed |-> DOMAIN fetched \ got,
         got |-> [r \in got |-> fetched[r].models],
         kept |-> [r \in Resources \ got |-> CatalogOf(r)]]

\* Lines 371-452: the button "Refresh Models from Source and All Targets"
RefreshAll ==
    /\ pc = "idle"
    /\ Len(configured_targets) > 0
    /\ \E source \in FetchOutcomes :
         \E outcomes \in [{configured_targets[i].key : i \in DOMAIN configured_targets}
                              -> FetchOutcomes] :
            /\ FetchSource(source)
            /\ FetchTargets(outcomes)
            /\ last_listing' = Listed(source, outcomes)
            /\ last_refresh' = Recorded("all", [r \in Resources |->
                                   IF r = "source" THEN source ELSE outcomes[r]])
    /\ UNCHANGED << handler, configured_targets, selected_targets, copy_suffix >>

\* Lines 466-499: the button "Refresh Source Models"
RefreshSource ==
    /\ pc = "idle"
    /\ \E source \in FetchOutcomes :
          /\ FetchSource(source)
          /\ last_listing' = Listed(source, <<>>)
          /\ last_refresh' = Recorded("source", [r \in {"source"} |-> source])
    /\ UNCHANGED << handler, configured_targets, selected_targets, copy_suffix,
                    target_models_lists, refreshed >>

\* Lines 524-554: the button "Refresh <target> Models" of one target tab
RefreshTarget ==
    /\ pc = "idle"
    /\ \E i \in DOMAIN configured_targets : \E outcome \in FetchOutcomes :
          LET outcomes == [key \in {configured_targets[i].key} |-> outcome]
          IN  /\ FetchTargets(outcomes)
              /\ last_listing' = Listed(NotFetched, outcomes)
              /\ last_refresh' = Recorded("target", outcomes)
    /\ UNCHANGED << handler, configured_targets, selected_targets, copy_suffix,
                    models_list, selected_model_ids >>

\* Lines 657-665: the status shown for a model in the column of a target
StatusCell(model, target) ==
    IF StoredIn(target, model.model_id) THEN "Exists"
    ELSE IF target.key \in DOMAIN target_models_lists THEN "Not Found"
    ELSE "Unknown"

\* Lines 655 and 733: the "Target ID" shown in the row of a model
TargetID(model) == model.model_id \o copy_suffix

\* Lines 577-697: the table is shown and rows are ticked in it
SelectModels ==
    /\ pc = "idle"
    /\ models_list # <<>>
    /\ configured_targets # <<>>
    /\ \E S \in SUBSET (1..Len(models_list)) :
          selected_model_ids' = SelectedRows(models_list, S)
    /\ last_refresh' = NoRefresh
    /\ UNCHANGED << handler, configured_targets, selected_targets, copy_suffix,
                    models_list, target_models_lists, refreshed, last_listing >>

\* Lines 698-716: the suffix is typed and target environments are ticked:
\* none of them or all of them
ConfigureCopy ==
    /\ pc = "idle"
    /\ models_list # <<>>
    /\ configured_targets # <<>>
    /\ copy_suffix' \in Suffixes
    /\ \E T \in {{}, DOMAIN configured_targets} :
          selected_targets' = Pick(configured_targets, T)
    /\ last_refresh' = NoRefresh
    /\ UNCHANGED << handler, configured_targets, selected_model_ids, models_list,
                    target_models_lists, refreshed, last_listing >>

\* The session as it starts: nothing loaded, nothing ticked
InitCatalog ==
    /\ configured_targets \in ConfiguredTargetsChoices
    /\ models_list = <<>>
    /\ target_models_lists = NothingStored(configured_targets)
    /\ refreshed = {}
    /\ selected_model_ids = <<>>
    /\ selected_targets = <<>>
    /\ copy_suffix = <<>>
    /\ pc = "idle"
    /\ ti = 0
    /\ mi = 0
    /\ source_key = NoKey
    /\ target_key = NoKey
    /\ all_results = <<>>
    /\ operation_count = 0
    /\ copy_auth = Unbound
    /\ copy_result = Unbound
    /\ attempt = 0
    /\ copy_completed = FALSE
    /\ report = [kind |-> "none"]
    /\ io = NoIo
    /\ fetches = <<>>
    /\ started = <<>>
    /\ faults = 0
    /\ last_listing = [of |-> "none", models |-> <<>>]
    /\ last_refresh = NoRefresh

NextCatalog ==
    \/ RefreshAll
    \/ RefreshSource
    \/ RefreshTarget
    \/ SelectModels
    \/ ConfigureCopy

SpecCatalog == InitCatalog /\ [][NextCatalog]_vars

\* The copy button handler in sessions whose targets are named in the .env
\* file: the models of one listing, every selection of them, both targets
\* selected
SessionsNamed ==
    { [configured_targets |-> c, models_list |-> Catalog,
       target_models_lists |-> NothingStored(c), refreshed |-> {},
       selected_model_ids |-> SelectedRows(Catalog, M),
       selected_targets |-> Pick(c, T), copy_suffix |-> <<>>] :
          c \in NamedTargetsChoices, M \in SUBSET (1..Len(Catalog)),
          T \in {{}, {1, 2}} }

InitNamed ==
    /\ \E session \in SessionsNamed :
          /\ configured_targets = session.configured_targets
          /\ models_list = session.models_list
          /\ target_models_lists = session.target_models_lists
          /\ refreshed = session.refreshed
          /\ selected_model_ids = session.selected_model_ids
          /\ selected_targets = session.selected_targets
          /\ copy_suffix = session.copy_suffix
    /\ pc = "idle"
    /\ ti = 0
    /\ mi = 0
    /\ source_key = NoKey
    /\ target_key = NoKey
    /\ all_results = <<>>
    /\ operation_count = 0
    /\ copy_auth = Unbound
    /\ copy_result = Unbound
    /\ attempt = 0
    /\ copy_completed = FALSE
    /\ report = [kind |-> "none"]
    /\ io = NoIo
    /\ fetches = <<>>
    /\ started = <<>>
    /\ faults = 0
    /\ last_listing = [of |-> "none", models |-> <<>>]
    /\ last_refresh = NoRefresh

SpecNamed == InitNamed /\ [][Next]_vars

\* ------------------------------------------------------------------------
\* Vocabulary of the properties
\* ------------------------------------------------------------------------
\* The entries of a result list that are about one model
Count(list, id) == Cardinality({i \in DOMAIN list : list[i].model_id = id})

\* The result entries of the pairing (t-th selected target, m-th selected model)
EntriesFor(t, m) ==
    LET lists == all_results[selected_targets[t].name]
    IN  Count(lists.successful, selected_model_ids[m])
            + Count(lists.failed, selected_model_ids[m])

Pairings == (DOMAIN selected_targets) \X (DOMAIN selected_model_ids)

\* The pairing the history io is about: its target's lists and its model
IoResults == all_results[selected_targets[io.ti].name]
IoModel == selected_model_ids[io.mi]

LastIs(list, entry) == list # <<>> /\ list[Len(list)] = entry

\* The pairing of io has exactly one entry, a failure that is the last of
\* its target's failed list
OneFailure(entry) ==
    /\ io.appended = 1
    /\ LastIs(IoResults.failed, entry)
    /\ Count(IoResults.failed, IoModel) = 1
    /\ Count(IoResults.successful, IoModel) = 0

\* The pairing of io is over: the handler is at a later pairing, a later
\* target or the end, and sends nothing more for it
IoPairingOver ==
    /\ pc \notin {"initiate", "poll"}
    /\ pc = "authorize" => <<ti, mi>> # <<io.ti, io.mi>>

\* Pairings are begun in the order of the two loops, none twice, and the
\* calls of a run are those of the pairing begun last
StartedInOrder ==
    /\ \A i, j \in DOMAIN started :
         i < j => \/ started[i][1] < started[j][1]
                  \/ started[i][1] = started[j][1] /\ started[i][2] < started[j][2]
    /\ io.ti # 0 => started # <<>> /\ started[Len(started)] = <<io.ti, io.mi>>
    /\ pc \in {"initiate", "poll"} => <<io.ti, io.mi>> = <<ti, mi>> /\ io.appended = 0

\* A status check answered with a pending or otherwise non-terminal status
\* before the last allowed attempt leaves the pairing polling
NonTerminalKeepsPolling ==
    (io.answer.to = "status" /\ io.answer.is \in {"pending", "other"}
        /\ io.polls < max_attempts)
    => pc = "poll" /\ io.appended = 0 /\ io.sleeps = io.polls

\* The fetch of the t-th selected target's key, the (t+1)-th of the run
KeyFailed(t) == Len(fetches) > t /\ ~fetches[t + 1].readable
SetupOk(t) == Len(fetches) > t /\ fetches[t + 1].readable /\ fetches[t + 1].client_created

\* ------------------------------------------------------------------------
\* The claims
\* ------------------------------------------------------------------------

\* C1: when a run whose source credential resolved has reported its summary,
\* every (selected target, selected model) pairing has exactly one result
\* entry across the target's successful and failed lists, whatever the
\* remote answered, the last allowed poll included.
C1_ExactlyOneResultPerPairing ==
    report.kind = "summary" => \A p \in Pairings : EntriesFor(p[1], p[2]) = 1

\* C2: when a status check is answered with status Failed (any letter case)
\* and an error payload whose message is "quota exceeded", as an object or
\* as a string, the pairing is recorded as one failure whose reason is that
\* message, and polling stops with that poll.
C2_FailedStatusRecordsMessage ==
    (io.answer.to = "status" /\ io.answer.is \in {"failed_object", "failed_string"})
    => /\ IoPairingOver
       /\ OneFailure(FailedEntry(IoModel, QuotaExceeded))

\* C3: timeout law. When the max_attempts-th status check of a pairing is
\* answered with a non-terminal status, as all the earlier ones were, the
\* pairing is recorded as one failure with the timed-out reason, exactly
\* max_attempts status checks were sent for it, and none is sent afterwards:
\* the pairing is over, and no pairing is begun twice.
C3_TimeoutLaw ==
    /\ (io.answer.to = "status" /\ io.answer.is \in {"pending", "other"}
            /\ io.polls >= max_attempts)
       => /\ io.polls = max_attempts
          /\ io.sleeps = max_attempts
          /\ IoPairingOver
          /\ OneFailure(FailedEntry(IoModel, <<"Copy operation timed out">>))
    /\ io.polls <= max_attempts
    /\ NonTerminalKeepsPolling
    /\ StartedInOrder

C3_Witness ==
    /\ io.answer = [to |-> "status", is |-> "pending"]
    /\ io.polls = max_attempts
    /\ LastIs(IoResults.failed, FailedEntry(IoModel, <<"Copy operation timed out">>))

\* C4: when the k-th status check of a pairing is the first answered
\* Succeeded (any letter case), the earlier ones having been answered
\* NotStarted or Running, the pairing is recorded as one success whose
\* destination id is the model id followed by the suffix, after exactly k
\* status checks (k - 1 of them followed by a sleep), 1 <= k <= max_attempts,
\* and polling stops.
C4_SucceededAfterKPolls ==
    /\ (io.answer.to = "status" /\ io.answer.is = "succeeded")
       => /\ io.polls \in 1..max_attempts
          /\ io.sleeps = io.polls - 1
          /\ IoPairingOver
          /\ io.appended = 1
          /\ LastIs(IoResults.successful,
                    SuccessfulEntry(IoModel, IoModel \o copy_suffix))
          /\ Count(IoResults.successful, IoModel) = 1
          /\ Count(IoResults.failed, IoModel) = 0
    /\ NonTerminalKeepsPolling
    /\ pc \in {"initiate", "poll"} => <<io.ti, io.mi>> = <<ti, mi>> /\ io.appended = 0

C4_Witness ==
    /\ io.answer = [to |-> "status", is |-> "succeeded"]
    /\ io.polls = 3
    /\ copy_suffix # <<>>
    /\ LastIs(IoResults.successful, SuccessfulEntry(IoModel, IoModel \o copy_suffix))

\* C5: a failure inside one pairing never aborts the run: whatever the
\* remote answers to a pairing's calls, a run that got past the source
\* credential ends with the summary, every pairing having a recorded outcome.
C5_FailuresNeverAbortTheRun ==
    (pc = "done" /\ DOMAIN all_results # {})
    => /\ report.kind = "summary"
       /\ \A p \in Pairings : EntriesFor(p[1], p[2]) >= 1

\* C6: target independence. When the key of a selected target cannot be
\* fetched, that target's lists hold one credential failure per selected
\* model and nothing else, no pairing of that target is ever begun (so no
\* authorize, initiate or status call is sent for it), the handler state the
\* next target starts from is untouched, and in a run that reaches its
\* summary the pairings begun are exactly those of the targets whose setup
\* succeeded, in the order of the loops.
C6_TargetIndependence ==
    /\ \A t \in DOMAIN selected_targets :
         KeyFailed(t)
         => /\ all_results[selected_targets[t].name] =
                  [successful |-> <<>>,
                   failed |-> [i \in DOMAIN selected_model_ids |->
                                  FailedEntry(selected_model_ids[i],
                                              <<"Failed to retrieve target API key">>)]]
            /\ \A i \in DOMAIN started : started[i][1] # t
    /\ (KeyFailed(1) /\ ti = 2 /\ pc = "target")
       => /\ io = NoIo /\ started = <<>> /\ operation_count = 0
          /\ copy_auth = Unbound /\ copy_result = Unbound
          /\ report.kind = "none"
          /\ \A t \in DOMAIN selected_targets :
               t > 1 => all_results[selected_targets[t].name] =
                            [successful |-> <<>>, failed |-> <<>>]
    /\ report.kind = "summary"
       => \A p \in Pairings :
            SetupOk(p[1]) <=> \E i \in DOMAIN started : started[i] = p
    /\ StartedInOrder

C6_Witness ==
    /\ report.kind = "summary"
    /\ Len(selected_targets) = 2 /\ Len(selected_model_ids) = 2
    /\ KeyFailed(1)
    /\ Len(all_results[selected_targets[1].name].failed) = 2
    /\ started = << <<2, 1>>, <<2, 2>> >>
    /\ Len(all_results[selected_targets[2].name].successful) = 2

\* C7: when the source key cannot be fetched at the start of the copy, the
\* run is over at once: the only key vault read is the source's, no
\* authorize, initiate or status call is sent, no pairing is begun and no
\* result is recorded.
C7_SourceCredentialHardFail ==
    (pc # "idle" /\ ~Truthy(source_key))
    => /\ pc = "done"
       /\ report = [kind |-> "error", text |-> "Failed to retrieve source API key."]
       /\ Len(fetches) = 1
       /\ fetches[1].kv_url = source_kv_url /\ fetches[1].secret_name = source_secret_name
       /\ target_key = NoKey
       /\ io = NoIo /\ started = <<>> /\ operation_count = 0
       /\ DOMAIN all_results = {}

C7_Witness ==
    /\ pc = "done" /\ ~Truthy(source_key)
    /\ Len(fetches) = 1 /\ ~fetches[1].readable

\* C8: short-circuit within a pairing. When the authorize call fails (an
\* HTTP error or a transport failure), no initiate call and no status check
\* is sent for the pairing; when the initiate call fails, no status check is
\* sent; either way the pairing has exactly one entry, a failure whose
\* reason starts with the name of the step that failed.
C8_StepFailureShortCircuits ==
    /\ (io.answer.to = "authorizeCopy" /\ io.answer.is \in {"http", "transport"})
       => /\ io.copyTo = <<>> /\ io.status = <<>> /\ io.polls = 0
          /\ IoPairingOver
          /\ IoResults.failed # <<>>
          /\ OneFailure(IoResults.failed[Len(IoResults.failed)])
          /\ IoResults.failed[Len(IoResults.failed)].error[1] = "Authorization failed: "
    /\ (io.answer.to = "copyTo" /\ io.answer.is \in {"http", "transport", "no_header"})
       => /\ Len(io.copyTo) = 1 /\ io.status = <<>> /\ io.polls = 0
          /\ IoPairingOver
          /\ IoResults.failed # <<>>
          /\ OneFailure(IoResults.failed[Len(IoResults.failed)])
          /\ IoResults.failed[Len(IoResults.failed)].error[1] = "Copy initiation failed: "

C8_Witness ==
    /\ io.answer = [to |-> "authorizeCopy", is |-> "http"]
    /\ io.copyTo = <<>> /\ io.polls = 0
    /\ Count(IoResults.failed, IoModel) = 1

\* C9: when the initiate call is answered 2xx without an Operation-Location
\* header, the pairing is recorded as one failure, the missing header named
\* as its reason, and no status check is sent for it.
C9_MissingHeaderIsFailure ==
    (io.answer.to = "copyTo" /\ io.answer.is = "no_header")
    => /\ io.status = <<>> /\ io.polls = 0
       /\ IoPairingOver
       /\ OneFailure(FailedEntry(IoModel,
                        << "Copy initiation failed: ",
                           "No Operation-Location header in response" >>))

C9_Witness ==
    /\ io.answer = [to |-> "copyTo", is |-> "no_header"]
    /\ io.polls = 0
    /\ Count(IoResults.failed, IoModel) = 1 /\ Count(IoResults.successful, IoModel) = 0

\* The api_version strings of the listings that are lexicographically at or
\* after the cutover "2024-11-30"
AtOrAfterCutover == {V_2024_11_30, V_2024_11_30_preview, V_2025_01_01, V_9}

\* C10: version routing depends on the model's api_version only: the
\* authorize and initiate requests of a pairing use the path prefix
\* documentintelligence and api-version 2024-11-30 when the model's
\* api_version is present and at or after "2024-11-30", and the path prefix
\* formrecognizer and api-version 2023-07-31 when it is smaller, empty, None
\* or absent.
C10_VersionRouting ==
    \A req \in {io.authorize[i] : i \in DOMAIN io.authorize}
                  \cup {io.copyTo[i] : i \in DOMAIN io.copyTo} :
        LET rows == {models_list[i] : i \in DOMAIN models_list}
            model == CHOOSE m \in rows : m.model_id = IoModel
            newer == model.api_version.tag = "value"
                     /\ model.api_version.v \in AtOrAfterCutover
        IN  /\ Cardinality({m \in rows : m.model_id = IoModel}) = 1
            /\ req.path_prefix = IF newer THEN "documentintelligence" ELSE "formrecognizer"
            /\ req.api_version = IF newer THEN V_2024_11_30 ELSE V_2023_07_31

C10_Witness ==
    /\ io.copyTo # <<>>
    /\ io.copyTo[1].path_prefix = "documentintelligence"
    /\ io.copyTo[1].api_version = V_2024_11_30
    /\ \E i \in DOMAIN models_list :
         /\ models_list[i].model_id = IoModel
         /\ models_list[i].api_version = Val(V_2024_11_30)

\* C11: whenever both the authorize and the initiate call of a pairing have
\* been sent, the two requests have the same path prefix and the same
\* api-version.
C11_SameDialectForBothCalls ==
    \A a \in {io.authorize[i] : i \in DOMAIN io.authorize} :
        \A c \in {io.copyTo[i] : i \in DOMAIN io.copyTo} :
            /\ a.path_prefix = c.path_prefix
            /\ a.api_version = c.api_version

C11_Witness ==
    /\ io.authorize # <<>> /\ io.copyTo # <<>>
    /\ io.authorize[1].path_prefix = "documentintelligence"
    /\ io.copyTo[1].path_prefix = "documentintelligence"

\* p is before q in the order of the loops: targets in selection order,
\* models in the order given within a target
Before(p, q) == p[1] < q[1] \/ (p[1] = q[1] /\ p[2] < q[2])

\* C12: the operations of a run never overlap. Pairings are begun in the
\* order of the two loops and none twice; the calls sent are those of the
\* pairing begun last; when the authorize call of a pairing is about to be
\* sent, every pairing begun before has its recorded outcome, and every
\* earlier pairing of a target whose setup succeeded has been begun; the
\* pairing being worked on has no outcome yet.
C12_NoOverlap ==
    /\ StartedInOrder
    /\ pc = "authorize"
       => \A i \in DOMAIN started : EntriesFor(started[i][1], started[i][2]) >= 1
    /\ pc \in {"initiate", "poll"}
       => /\ started # <<>> /\ started[Len(started)] = <<ti, mi>>
          /\ EntriesFor(ti, mi) = 0
          /\ \A i \in 1..(Len(started) - 1) :
               EntriesFor(started[i][1], started[i][2]) >= 1
    /\ pc \in {"authorize", "initiate", "poll"}
       => \A p \in Pairings :
            (Before(p, <<ti, mi>>) /\ SetupOk(p[1]))
            => \E i \in DOMAIN started : started[i] = p

C12_Witness ==
    /\ started = << <<1, 1>>, <<1, 2>>, <<2, 1>> >>
    /\ pc = "poll" /\ io.polls >= 1
    /\ EntriesFor(1, 1) = 1 /\ EntriesFor(1, 2) = 1

\* C13: every status check is sent with the key stored for the source
\* resource, which is the key of no selected target.
C13_PollsUseSourceKey ==
    \A req \in {io.status[i] : i \in DOMAIN io.status} :
        /\ req.key = SecretValue(source_kv_url, source_secret_name)
        /\ \A t \in DOMAIN selected_targets :
             req.key # SecretValue(selected_targets[t].kv_url,
                                   selected_targets[t].secret_name)

C13_Witness ==
    /\ io.status # <<>> /\ io.ti = 2
    /\ io.status[1].key = source_key.v
    /\ Truthy(target_key) /\ target_key # source_key

\* C14: every run whose source key was fetched (and whose source client
\* was created) ends with the summary, and the summary lists for every
\* selected target its successful and failed entries, every pairing having
\* one, with the totals over all targets.
C14_RunEndsWithFullSummary ==
    (pc = "done" /\ Truthy(source_key) /\ fetches[1].client_created)
    => /\ report.kind = "summary"
       /\ DOMAIN report.targets =
              {selected_targets[t].name : t \in DOMAIN selected_targets}
       /\ report.targets = all_results
       /\ \A p \in Pairings : EntriesFor(p[1], p[2]) >= 1
       /\ report.total_successful + report.total_failed >= report.total_operations

\* C15: the destination id of a pairing is the source model id followed by
\* the suffix (the source model id itself when the suffix is empty): the
\* authorize request names it as modelId, the initiate request addresses the
\* source model id, and every success entry records it as new_model_id.
C15_DestinationId ==
    /\ \A a \in {io.authorize[i] : i \in DOMAIN io.authorize} :
         /\ a.body.v.modelId.v = IoModel \o copy_suffix
         /\ copy_suffix = <<>> => a.body.v.modelId.v = IoModel
    /\ \A c \in {io.copyTo[i] : i \in DOMAIN io.copyTo} : c.model = IoModel
    /\ \A name \in DOMAIN all_results :
         \A i \in DOMAIN all_results[name].successful :
            LET entry == all_results[name].successful[i]
            IN  /\ entry.new_model_id = entry.model_id \o copy_suffix
                /\ copy_suffix = <<>> => entry.new_model_id = entry.model_id

C15_Witness ==
    /\ copy_suffix # <<>>
    /\ io.answer = [to |-> "status", is |-> "succeeded"]
    /\ io.authorize[1].body.v.modelId.v = IoModel \o copy_suffix
    /\ io.copyTo[1].model = IoModel
    /\ IoResults.successful # <<>>
    /\ IoResults.successful[1].new_model_id = IoModel \o copy_suffix

\* The answers that make a call a failed one
FailedAnswers ==
    {"http", "transport", "malformed", "no_header",
     "failed_object", "failed_string", "failed_bare"}

\* C16: nothing is retried. No pairing is begun twice, a pairing sends one
\* authorize request and at most one initiate request, every pairing begun
\* was counted once, and once a call of a pairing has failed nothing more is
\* sent for that pairing.
C16_NothingRetried ==
    /\ \A i, j \in DOMAIN started : i # j => started[i] # started[j]
    /\ operation_count = Len(started)
    /\ io.ti # 0 => Len(io.authorize) = 1 /\ started[Len(started)] = <<io.ti, io.mi>>
    /\ Len(io.copyTo) <= 1
    /\ io.answer.is \in FailedAnswers
       => /\ IoPairingOver
          /\ io.answer.to = "authorizeCopy" => io.copyTo = <<>> /\ io.polls = 0
          /\ io.answer.to = "copyTo" => io.polls = 0

C16_Witness ==
    /\ io.answer = [to |-> "status", is |-> "http"]
    /\ io.polls = 2
    /\ pc = "authorize" /\ <<ti, mi>> # <<io.ti, io.mi>>
    /\ Len(io.authorize) = 1 /\ Len(io.copyTo) = 1

\* C17: within a run the source key is fetched once, first of all, and the
\* key of each selected target once, in selection order, before the first
\* pairing of that target; while the pairings of a target are worked on no
\* key is fetched.
C17_CredentialsFetchedOnce ==
    /\ pc # "idle"
       => /\ Len(fetches) >= 1
          /\ fetches[1].kv_url = source_kv_url
          /\ fetches[1].secret_name = source_secret_name
    /\ Len(fetches) <= 1 + Len(selected_targets)
    /\ \A k \in 2..Len(fetches) :
         /\ fetches[k].kv_url = selected_targets[k - 1].kv_url
         /\ fetches[k].secret_name = selected_targets[k - 1].secret_name
    /\ pc = "target" => Len(fetches) = ti
    /\ pc \in {"authorize", "initiate", "poll"} => Len(fetches) = ti + 1
    /\ \A i \in DOMAIN started : Len(fetches) > started[i][1]
    /\ report.kind = "summary" => Len(fetches) = 1 + Len(selected_targets)

C17_Witness ==
    /\ report.kind = "summary"
    /\ Len(selected_targets) = 2 /\ Len(started) = 4
    /\ Len(fetches) = 3

\* C18: a status check answered with a status that is none of NotStarted,
\* Running, Succeeded, Failed, or with no status, is non-terminal: before
\* the last allowed attempt the pairing goes on polling with no entry
\* recorded, the check having been counted; on the last allowed attempt the
\* pairing times out.
C18_UnknownStatusIsNonTerminal ==
    (io.answer.to = "status" /\ io.answer.is = "other")
    => IF io.polls < max_attempts
       THEN /\ pc = "poll" /\ <<ti, mi>> = <<io.ti, io.mi>>
            /\ attempt = io.polls /\ io.sleeps = io.polls
            /\ io.appended = 0
            /\ EntriesFor(io.ti, io.mi) = 0
       ELSE /\ io.polls = max_attempts
            /\ OneFailure(FailedEntry(IoModel, <<"Copy operation timed out">>))

C18_Witness ==
    /\ io.answer = [to |-> "status", is |-> "other"]
    /\ pc = "poll" /\ io.polls = 2 /\ attempt = 2
    /\ EntriesFor(io.ti, io.mi) = 0

\* Two response bodies that differ in the letter case of the status only
SameButCase(b1, b2) ==
    /\ IsDict(b1) /\ IsDict(b2)
    /\ DOMAIN b1.v = DOMAIN b2.v
    /\ "status" \in DOMAIN b1.v
    /\ IsStr(b1.v["status"]) /\ IsStr(b2.v["status"])
    /\ \A k \in DOMAIN b1.v \ {"status"} : b1.v[k] = b2.v[k]
    /\ LET s1 == b1.v["status"].v
           s2 == b2.v["status"].v
       IN  /\ s1 # s2
           /\ Len(s1) = Len(s2)
           /\ \A i \in DOMAIN s1 :
                \/ s1[i] = s2[i]
                \/ \E c \in {<<"s", "S">>, <<"f", "F">>, <<"r", "R">>, <<"n", "N">>} :
                      {s1[i], s2[i]} = {c[1], c[2]}

CasePairs ==
    {p \in StatusResponses(CurrentStatusRequest) \X StatusResponses(CurrentStatusRequest) :
        p[1].kind = "ok" /\ p[2].kind = "ok" /\ SameButCase(p[1].json, p[2].json)}

\* C19: status values are matched whatever their letter case: two answers
\* to a status check that differ in the letter case of the status only are
\* handed back alike by check_copy_status and make the loop do the same
\* thing: the same entries, the same completion, the same continuation.
C19_StatusCaseInsensitive ==
    pc = "poll"
    => \A p \in CasePairs :
          /\ ~check_copy_status(p[1]).raised /\ ~check_copy_status(p[2]).raised
          /\ PollBody(check_copy_status(p[1]).value)
                = PollBody(check_copy_status(p[2]).value)

C19_Witness ==
    /\ pc = "poll" /\ io.polls >= 1
    /\ \E p \in CasePairs :
          /\ p[1].json.v["status"].v = S_succeeded
          /\ p[2].json.v["status"].v = S_Succeeded
          /\ PollBody(check_copy_status(p[2]).value).completed
    /\ \E p \in CasePairs :
          /\ p[1].json.v["status"].v = S_running
          /\ p[2].json.v["status"].v = S_Running
          /\ ~PollBody(check_copy_status(p[2]).value).break

\* C20: when a status check is answered Succeeded, the new_model_id of the
\* success entry recorded is the model id named in the result of the answer.
C20_DestinationIdFromPayload ==
    (io.answer.to = "status" /\ io.answer.is = "succeeded")
    => /\ IoResults.successful # <<>>
       /\ IoResults.successful[Len(IoResults.successful)].new_model_id = ResultModelId

\* The authorization the target of a request returns for it
AuthorizationFor(req) ==
    JObj([targetResourceId |-> JStr(req.endpoint),
          targetModelId |-> req.body.v.modelId,
          accessToken |-> JStr(<<"token for ">> \o req.endpoint)])

\* C21: the authorization a target returned is used by one initiate request
\* at most, that of the same pairing, as its body and unchanged: the body of
\* the initiate request is what the target answered to the authorize request
\* of the pairing, which names the target of the pairing and the destination
\* id of its model.
C21_AuthorizationUsedOnce ==
    /\ Len(io.copyTo) <= 1
    /\ \A c \in {io.copyTo[i] : i \in DOMAIN io.copyTo} :
         /\ Len(io.authorize) = 1
         /\ c.body = AuthorizationFor(io.authorize[1])
         /\ c.body.v.targetResourceId.v = selected_targets[io.ti].endpoint
         /\ c.body.v.targetModelId.v = IoModel \o copy_suffix
         /\ c.model = IoModel
    /\ \A i, j \in DOMAIN started : i # j => started[i] # started[j]
    /\ pc = "initiate" => copy_auth = AuthorizationFor(io.authorize[1])

C21_Witness ==
    /\ io.ti = 2 /\ io.mi = 2
    /\ Len(io.copyTo) = 1
    /\ io.copyTo[1].body = AuthorizationFor(io.authorize[1])
    /\ io.copyTo[1].body.v.targetResourceId.v = selected_targets[2].endpoint

IsPrefix(a, b) == Len(a) <= Len(b) /\ SubSeq(b, 1, Len(a)) = a

\* C22: result entries are append-only: at every step each list of each
\* target is an extension of what it was before the step.
C22_AppendOnly ==
    [][\A name \in DOMAIN all_results :
          /\ name \in DOMAIN all_results'
          /\ IsPrefix(all_results[name].successful, all_results'[name].successful)
          /\ IsPrefix(all_results[name].failed, all_results'[name].failed)]_vars

C22_Witness ==
    \E name \in DOMAIN all_results :
       /\ Len(all_results[name].successful) = 1
       /\ Len(all_results[name].failed) = 1
       /\ pc = "done"

\* C26: a selected model that the stored models of a selected target
\* already hold is attempted like any other: its pairing is begun when its
\* turn comes, and a conflict the target reports to the authorize request is
\* recorded as the one entry of the pairing, an authorization failure with
\* the message of the target, no initiate request being sent.
C26_ExistingModelStillAttempted ==
    /\ pc \in {"authorize", "initiate", "poll"}
       => \A p \in Pairings :
            (Before(p, <<ti, mi>>) /\ SetupOk(p[1])
                /\ StoredIn(selected_targets[p[1]], selected_model_ids[p[2]]))
            => \E i \in DOMAIN started : started[i] = p
    /\ report.kind = "summary"
       => \A p \in Pairings :
            (SetupOk(p[1]) /\ StoredIn(selected_targets[p[1]], selected_model_ids[p[2]]))
            => /\ \E i \in DOMAIN started : started[i] = p
               /\ EntriesFor(p[1], p[2]) >= 1
    /\ (io.answer = [to |-> "authorizeCopy", is |-> "http"])
       => /\ io.copyTo = <<>>
          /\ IoPairingOver
          /\ OneFailure(FailedEntry(IoModel,
                 << "Authorization failed: ", "HTTP ", "409", ": ",
                    "model already exists" >>))

C26_Witness ==
    /\ io.answer = [to |-> "authorizeCopy", is |-> "http"]
    /\ StoredIn(selected_targets[io.ti], IoModel)
    /\ io.copyTo = <<>>
    /\ Count(IoResults.failed, IoModel) = 1

\* C29: the authorize request of a pairing goes to the endpoint of the
\* pairing's target with the key stored for that target, the initiate
\* request to the source endpoint with the key stored for the source; no
\* request of the pairing carries the endpoint or key of another target.
C29_CallsAddressTheirResource ==
    LET target == selected_targets[io.ti]
        others == {configured_targets[i] : i \in DOMAIN configured_targets} \ {target}
    IN  /\ \A a \in {io.authorize[i] : i \in DOMAIN io.authorize} :
             /\ a.endpoint = target.endpoint
             /\ a.key = SecretValue(target.kv_url, target.secret_name)
             /\ \A o \in others :
                  /\ a.endpoint # o.endpoint
                  /\ a.key # SecretValue(o.kv_url, o.secret_name)
        /\ \A c \in {io.copyTo[i] : i \in DOMAIN io.copyTo} :
             /\ c.endpoint = source_endpoint
             /\ c.key = SecretValue(source_kv_url, source_secret_name)
             /\ \A o \in others \cup {target} :
                  /\ c.endpoint # o.endpoint
                  /\ c.key # SecretValue(o.kv_url, o.secret_name)

C29_Witness ==
    /\ io.ti = 2
    /\ Len(io.authorize) = 1 /\ Len(io.copyTo) = 1
    /\ io.authorize[1].endpoint = selected_targets[2].endpoint
    /\ io.copyTo[1].endpoint = source_endpoint

\* C23: a run that got past the source checks ends only by completing all
\* pairings: when it is over both loops have run to their end, every
\* selected target has been set up, every pairing of a target whose setup
\* succeeded has been begun, with at most max_attempts status checks, and
\* every pairing has its entry.
C23_EndsOnlyByCompletingAllPairings ==
    /\ io.polls <= max_attempts
    /\ Len(started) <= Len(selected_model_ids) * Len(selected_targets)
    /\ (pc = "done" /\ DOMAIN all_results # {})
       => /\ ti = Len(selected_targets) + 1
          /\ Len(fetches) = 1 + Len(selected_targets)
          /\ \A p \in Pairings :
               /\ SetupOk(p[1]) => \E i \in DOMAIN started : started[i] = p
               /\ EntriesFor(p[1], p[2]) >= 1

\* C27: the totals of the summary add up: the successful and the failed
\* entries over all targets are as many as the operations announced, one
\* per selected model and selected target.
C27_SummaryTotalsAddUp ==
    report.kind = "summary"
    => /\ report.total_operations = Len(selected_model_ids) * Len(selected_targets)
       /\ report.total_successful + report.total_failed = report.total_operations

\* C28: a status check that itself fails (an HTTP error or a transport
\* failure) ends the pairing at once with exactly one entry, a failure whose
\* reason starts with "Status check failed: "; and a 2xx answer whose status
\* is not Failed never leaves such an entry.
C28_StatusCheckFailureEndsPairing ==
    /\ (io.answer.to = "status" /\ io.answer.is \in {"http", "transport"})
       => /\ IoPairingOver
          /\ IoResults.failed # <<>>
          /\ OneFailure(IoResults.failed[Len(IoResults.failed)])
          /\ \A i \in DOMAIN IoResults.failed :
               IoResults.failed[i].model_id = IoModel
               => IoResults.failed[i].error[1] = "Status check failed: "
    /\ (io.answer.to = "status" /\ io.answer.is \in {"succeeded", "pending", "other"})
       => \A i \in DOMAIN IoResults.failed :
             IoResults.failed[i].model_id = IoModel
             => IoResults.failed[i].error[1] # "Status check failed: "

\* A model id that does not begin with "prebuilt-"
NotPrebuilt(id) == \E k \in 1..9 : Len(id) < k \/ id[k] # Prebuilt[k]

\* C24: after any sequence of refreshes, neither the stored source models
\* nor the stored models of any target hold a model whose id begins with
\* "prebuilt-", and every ticked model id is the id of a stored source
\* model, so none begins with "prebuilt-".
C24_NoPrebuiltStored ==
    /\ \A i \in DOMAIN models_list : NotPrebuilt(models_list[i].model_id)
    /\ \A key \in DOMAIN target_models_lists :
         \A i \in DOMAIN target_models_lists[key] :
            NotPrebuilt(target_models_lists[key][i].model_id)
    /\ \A a \in DOMAIN selected_model_ids :
         /\ NotPrebuilt(selected_model_ids[a])
         /\ \E i \in DOMAIN models_list : models_list[i].model_id = selected_model_ids[a]

C24_Witness ==
    /\ last_listing.of = "target"
    /\ \E i \in DOMAIN last_listing.models :
          last_listing.models[i].model_id = ID_prebuilt_read
    /\ Len(models_list) = 4
    /\ \E key \in refreshed : Len(target_models_lists[key]) = 4
    /\ Len(selected_model_ids) = 2

HasCreated(m) ==
    m.created_date_time.tag = "value" /\ m.created_date_time.v # <<>>

\* C25: the rows offered for selection are the stored source models, newest
\* first, every model without a creation time after every model with one;
\* the ticked model ids are in the order of the rows.
C25_NewestFirst ==
    LET rows == sorted_models(models_list)
        RowOf(id) == CHOOSE i \in DOMAIN rows : rows[i].model_id = id
    IN  /\ Len(rows) = Len(models_list)
        /\ {rows[i] : i \in DOMAIN rows} = {models_list[i] : i \in DOMAIN models_list}
        /\ \A i, j \in DOMAIN rows :
             (i < j /\ HasCreated(rows[j]))
             => /\ HasCreated(rows[i])
                /\ rows[i].created_date_time.v[1] >= rows[j].created_date_time.v[1]
        /\ \A a \in DOMAIN selected_model_ids :
             \E i \in DOMAIN rows : rows[i].model_id = selected_model_ids[a]
        /\ \A a, b \in DOMAIN selected_model_ids :
             a < b => RowOf(selected_model_ids[a]) < RowOf(selected_model_ids[b])

C25_Witness ==
    /\ Len(models_list) = 4
    /\ ~HasCreated(models_list[1])
    /\ sorted_models(models_list)[1].model_id = ID_Prebuilt_x
    /\ ~HasCreated(sorted_models(models_list)[4])
    /\ selected_model_ids = <<ID_tax, ID_inv>>

\* C30: the status shown for a model in the column of a configured target
\* follows the legend: "Unknown" exactly when no refresh has stored the
\* models of that target in the session, "Exists" when one has and they hold
\* the model, "Not Found" when one has and they do not.
C30_StatusFollowsLegend ==
    \A i \in DOMAIN models_list : \A t \in DOMAIN configured_targets :
        LET target == configured_targets[t]
            shown == StatusCell(models_list[i], target)
            held == \E k \in DOMAIN target_models_lists[target.key] :
                       target_models_lists[target.key][k].model_id
                            = models_list[i].model_id
        IN  /\ shown = "Unknown" <=> target.key \notin refreshed
            /\ shown = "Exists" <=> (target.key \in refreshed /\ held)
            /\ shown = "Not Found" <=> (target.key \in refreshed /\ ~held)

\* C31: a model is shown as existing in a target, in the table and in the
\* warning of the copy summary, exactly when the stored models of that
\* target hold the id the copy would create there: the model id followed by
\* the suffix.
C31_ExistsMeansTargetIdStored ==
    LET Holds(target, id) ==
            \E k \in DOMAIN target_models_lists[target.key] :
                target_models_lists[target.key][k].model_id = id
    IN  /\ \A i \in DOMAIN models_list : \A t \in DOMAIN configured_targets :
             StatusCell(models_list[i], configured_targets[t]) = "Exists"
                <=> Holds(configured_targets[t], TargetID(models_list[i]))
        /\ \A a \in DOMAIN selected_model_ids : \A t \in DOMAIN selected_targets :
             StoredIn(selected_targets[t], selected_model_ids[a])
                <=> Holds(selected_targets[t], selected_model_ids[a] \o copy_suffix)

\* C32: after a refresh, every resource whose fetch failed and every
\* resource the refresh did not fetch has the stored models it had before,
\* and every resource fetched with success has the custom models of its
\* listing; "refresh all" fetches the source and every configured target
\* whichever of them fail, the other two refreshes fetch one resource.
C32_FailedRefreshKeepsCatalogs ==
    last_refresh.kind # "none" =>
       /\ \A r \in DOMAIN last_refresh.kept : CatalogOf(r) = last_refresh.kept[r]
       /\ last_refresh.failed \subseteq DOMAIN last_refresh.kept
       /\ \A r \in DOMAIN last_refresh.got :
             /\ \A i \in DOMAIN CatalogOf(r) :
                  \E k \in DOMAIN last_refresh.got[r] :
                      last_refresh.got[r][k] = CatalogOf(r)[i]
             /\ \A k \in DOMAIN last_refresh.got[r] :
                  NotPrebuilt(last_refresh.got[r][k].model_id)
                     => \E i \in DOMAIN CatalogOf(r) :
                           last_refresh.got[r][k] = CatalogOf(r)[i]
       /\ LET fetched == last_refresh.failed \cup DOMAIN last_refresh.got
          IN  /\ last_refresh.kind = "all" => fetched = Resources
              /\ last_refresh.kind = "source" => fetched = {"source"}
              /\ last_refresh.kind = "target"
                    => \E i \in DOMAIN configured_targets :
                          fetched = {configured_targets[i].key}

C32_Witness ==
    /\ last_refresh.kind = "all"
    /\ last_refresh.failed = {"source", configured_targets[1].key}
    /\ models_list # <<>>
    /\ target_models_lists[configured_targets[1].key] # <<>>
    /\ Len(target_models_lists[configured_targets[2].key]) = 4
    /\ Len(last_refresh.got[configured_targets[2].key]) = 5

\* C35: while no model or no target is selected, a press of the copy button
\* leaves the run unstarted: no key vault is read, no authorize, initiate or
\* status request is sent, and nothing is recorded.
C35_EmptySelectionStartsNothing ==
    (selected_model_ids = <<>> \/ selected_targets = <<>>)
       => /\ pc = "idle"
          /\ fetches = <<>>
          /\ source_key = NoKey /\ target_key = NoKey
          /\ io = NoIo
          /\ started = <<>>
          /\ all_results = <<>>
          /\ copy_auth = Unbound /\ copy_result = Unbound
          /\ attempt = 0

C35_Witness ==
    /\ selected_model_ids # <<>>
    /\ selected_targets = <<>>
    /\ report.kind = "warning"
    /\ fetches = <<>>

\* C36: within a pairing the number of sleeps equals the number of status
\* checks answered with a status that is not terminal; a check answered with
\* a terminal status or an error is the last one and no sleep follows it, so
\* a pairing that times out has slept max_attempts times.
C36_SleepsAfterNonTerminalPolls ==
    /\ io.sleeps = io.nonterminal
    /\ io.polls > 0
          => io.sleeps = IF io.answer.is \in {"pending", "other"}
                         THEN io.polls
                         ELSE io.polls - 1
    /\ (io.polls = max_attempts /\ io.answer.is \in {"pending", "other"})
          => /\ io.sleeps = max_attempts
             /\ LastIs(IoResults.failed,
                       FailedEntry(IoModel, <<"Copy operation timed out">>))

C36_Witness ==
    /\ io.polls = max_attempts
    /\ io.answer.is = "other"
    /\ io.sleeps = max_attempts
    /\ io.nonterminal = max_attempts
    /\ pc # "poll"

\* The place of a model id in the selection
SelectionIndex(id) ==
    CHOOSE a \in DOMAIN selected_model_ids : selected_model_ids[a] = id

\* The entries of a result list follow the order of the selection
InSelectionOrder(list) ==
    /\ \A i \in DOMAIN list :
          \E a \in DOMAIN selected_model_ids : selected_model_ids[a] = list[i].model_id
    /\ \A i, j \in DOMAIN list :
          i < j => SelectionIndex(list[i].model_id) <= SelectionIndex(list[j].model_id)

HasTimeout(list) ==
    \E i \in DOMAIN list :
        list[i] = FailedEntry(list[i].model_id, <<"Copy operation timed out">>)

\* C33: when a run has ended with its summary, the result kept for each
\* selected target holds the outcomes of the pairings made with that target
\* and no others: one entry for each selected model (two for a model whose
\* copy timed out, see C1), whatever the names of the targets.
C33_ResultsKeptPerTarget ==
    report.kind = "summary"
       => \A t \in DOMAIN selected_targets :
             LET lists == all_results[selected_targets[t].name]
             IN  /\ \A m \in DOMAIN selected_model_ids : EntriesFor(t, m) >= 1
                 /\ ~HasTimeout(lists.failed)
                       => Len(lists.successful) + Len(lists.failed)
                             = Len(selected_model_ids)

====
